---- MODULE Spec2Model ----
(***************************************************************************)
(* easycit: citation generation (src/easycit/cli.py).                      *)
(*                                                                         *)
(* Strings are sequences of one-character strings, so that the regular     *)
(* expression passes, str.strip, str.lower and substring tests are         *)
(* computed character by character.  Python's None is the value None.      *)
(***************************************************************************)
EXTENDS Integers, Sequences, FiniteSets, TLC

(* ------------------------------ bounds -------------------------------- *)
\* Longest text enumerated exhaustively over Alphabet.
MaxLen == 1
\* Number of times the wall clock may pass midnight during a run.
MaxDay == 1
\* Largest number of --override pairs on a command line.
MaxOverrides == 1

(* --------------------------- string helpers --------------------------- *)
None == <<"<None>">>

\* f"{x}": None is rendered as the text None.
Str(x) == IF x = None THEN <<"N","o","n","e">> ELSE x

\* Truth value of an optional string: None and "" are false.
Truthy(x) == x # None /\ x # <<>>

IsSpace(c) == c = " "

IsPunct(c) == c \in {",", "."}

Contains(s, sub) ==
  \E i \in 0..(Len(s) - Len(sub)) : SubSeq(s, i + 1, i + Len(sub)) = sub

UpperCase == <<"A","B","C","D","E","F","G","H","I","J","K","L","M","N","O","P","Q","R","S","T","U","V","W","X","Y","Z">>

LowerCase == <<"a","b","c","d","e","f","g","h","i","j","k","l","m","n","o","p","q","r","s","t","u","v","w","x","y","z">>

LowerChar(c) ==
  IF \E i \in 1..Len(UpperCase) : UpperCase[i] = c
  THEN LowerCase[CHOOSE i \in 1..Len(UpperCase) : UpperCase[i] = c]
  ELSE c

\* Faulty variant of Lower: the style is compared with its case.
LowerIdentity(s) == s

\* str.lower
Lower(s) == [i \in 1..Len(s) |-> LowerChar(s[i])]

\* str.strip
Strip(s) ==
  LET solid == {i \in 1..Len(s) : ~IsSpace(s[i])}
  IN  IF solid = {} THEN <<>>
      ELSE SubSeq(s, CHOOSE i \in solid : \A j \in solid : i <= j,
                     CHOOSE i \in solid : \A j \in solid : j <= i)

\* s without the characters at the positions in drop.
Without(s, drop) ==
  LET kept == SelectSeq([i \in 1..Len(s) |-> i], LAMBDA i : i \notin drop)
  IN  [k \in 1..Len(kept) |-> s[kept[k]]]

\* " ".join(part for part in citation_parts if part)
RECURSIVE Join(_)
Join(parts) ==
  IF parts = <<>> THEN <<>>
  ELSE IF Head(parts) = <<>> THEN Join(Tail(parts))
  ELSE LET rest == Join(Tail(parts))
       IN  IF rest = <<>> THEN Head(parts) ELSE Head(parts) \o <<" ">> \o rest

(* ------------------------ the three re.sub passes --------------------- *)
\* s[i] is whitespace that continues a run of whitespace.
InSpaceRun(s, i) == IsSpace(s[i]) /\ i > 1 /\ IsSpace(s[i - 1])

\* re.sub(r"\s+", " ", citation): each run of whitespace leaves one space.
CollapseSpaces(s) ==
  LET t == Without(s, {i \in 1..Len(s) : InSpaceRun(s, i)})
  IN  [i \in 1..Len(t) |-> IF IsSpace(t[i]) THEN " " ELSE t[i]]

\* s[i] is a ',' or '.' that repeats the character before it.
InPunctRun(s, i) == IsPunct(s[i]) /\ i > 1 /\ s[i - 1] = s[i]

\* Faulty variant of CollapsePunct: line 418 left out.
CollapsePunctSkipped(s) == s

\* re.sub(r"([,\.])\1+", r"\1", citation): each run of one character leaves one.
CollapsePunct(s) == Without(s, {i \in 1..Len(s) : InPunctRun(s, i)})

\* A match of \s([,\.]) starts at s[i]; matches cannot overlap.
SpaceBeforePunct(s, i) == IsSpace(s[i]) /\ i < Len(s) /\ IsPunct(s[i + 1])

\* The first match of \s([,\.]) starts at s[i].
FirstSpaceBeforePunct(s, i) ==
  SpaceBeforePunct(s, i) /\ \A j \in 1..(i - 1) : ~SpaceBeforePunct(s, j)

\* Faulty variant of DropSpaceBeforePunct: line 419 with count=1.
DropFirstSpaceBeforePunct(s) ==
  Without(s, {i \in 1..Len(s) : FirstSpaceBeforePunct(s, i)})

\* re.sub(r"\s([,\.])", r"\1", citation): the whitespace of every match goes.
DropSpaceBeforePunct(s) == Without(s, {i \in 1..Len(s) : SpaceBeforePunct(s, i)})

\* The substitutions of lines 417-419, applied to an already joined string.
Substitute(s) == DropSpaceBeforePunct(CollapsePunct(CollapseSpaces(s)))

\* Lines 416-419: join, strip, and the three substitutions.
Normalize(parts) == Substitute(Strip(Join(parts)))

(* ------------------------------ the clock ----------------------------- *)
\* The clock counts days from 30 December 2026; day 2 is 01 January 2027.
Digits == <<"0","1","2","3","4","5","6","7","8","9">>

TwoDigits(n) == <<Digits[(n \div 10) + 1], Digits[(n % 10) + 1]>>

DayOfMonth(d) == IF d <= 1 THEN 30 + d ELSE d - 1

\* %B
MonthName(d) == IF d <= 1 THEN <<"D","e","c","e","m","b","e","r">> ELSE <<"J","a","n","u","a","r","y">>

\* %b
MonthAbbr(d) == IF d <= 1 THEN <<"D","e","c">> ELSE <<"J","a","n">>

\* %Y
Year(d) == IF d <= 1 THEN <<"2","0","2","6">> ELSE <<"2","0","2","7">>

\* datetime.today().strftime("%d %B %Y") on day d
StrftimeLong(d) == TwoDigits(DayOfMonth(d)) \o <<" ">> \o MonthName(d) \o <<" ">> \o Year(d)

\* datetime.today().strftime("%d-%b-%Y") on day d
StrftimeDash(d) == TwoDigits(DayOfMonth(d)) \o <<"-">> \o MonthAbbr(d) \o <<"-">> \o Year(d)

(* ---------------------- publication date of a page -------------------- *)
IsDigit(c) == \E i \in 1..10 : Digits[i] = c

DigitVal(c) == (CHOOSE i \in 1..10 : Digits[i] = c) - 1

MonthAbbrs ==
  << <<"J","a","n">>, <<"F","e","b">>, <<"M","a","r">>, <<"A","p","r">>, <<"M","a","y">>, <<"J","u","n">>,
     <<"J","u","l">>, <<"A","u","g">>, <<"S","e","p">>, <<"O","c","t">>, <<"N","o","v">>, <<"D","e","c">> >>

\* Whether datetime.strptime(s, "%Y-%m-%d") accepts s (zero-padded dates).
IsIsoDate(s) ==
  /\ Len(s) = 10
  /\ s[5] = "-" /\ s[8] = "-"
  /\ \A i \in {1, 2, 3, 4, 6, 7, 9, 10} : IsDigit(s[i])
  /\ 10 * DigitVal(s[6]) + DigitVal(s[7]) \in 1..12
  /\ 10 * DigitVal(s[9]) + DigitVal(s[10]) \in 1..28

\* datetime.strptime(s, "%Y-%m-%d").strftime("%d %b. %Y")
ConvertPubDate(s) ==
  SubSeq(s, 9, 10) \o <<" ">> \o MonthAbbrs[10 * DigitVal(s[6]) + DigitVal(s[7])]
    \o <<"."," ">> \o SubSeq(s, 1, 4)

(* ------------------------------ records ------------------------------- *)
\* WebPageDetails(url, title, author, publisher, date_published)
WebPageDetails(u, t, a, p, d) ==
  [url |-> u, title |-> t, author |-> a, publisher |-> p, date_published |-> d]

\* WebPageDetails(): every field defaults to None.
EmptyDetails == WebPageDetails(None, None, None, None, None)

\* The value before generate_citation has returned.
NoResult ==
  [kind |-> "none", text |-> None, citation |-> None, format_type |-> None,
   date_accessed |-> None, url |-> None, title |-> None, author |-> None,
   publisher |-> None, date_published |-> None]

Sentinel ==
  <<"U","n","s","u","p","p","o","r","t","e","d"," ","f","o","r","m","a","t","."," ","P","l","e","a","s","e"," ","u","s","e"," ","o","n","e"," ","o","f"," ","t","h","e"," ","f","o","l","l","o","w","i","n","g",":"," ","a","p","a",","," ","m","l","a",","," ","c","h","i","c","a","g","o",","," ","I","E","E","E",","," ","H","a","r","v","a","r","d",".">>

(* --------------------------- citation clauses ------------------------- *)
\* One clause when cond holds, none otherwise.
Clause(cond, text) == IF cond THEN <<text>> ELSE <<>>

\* Faulty variant of ApaParts: the test of line 364 left out.
ApaPartsDateAlways(m, da, today, nourl) ==
  Clause(Truthy(m.author), Str(m.author))
    \o << <<"(","n",".","d",".",")",".">> >>
    \o Clause(Truthy(m.title), Str(m.title) \o <<".">>)
    \o Clause(Truthy(m.publisher), Str(m.publisher) \o <<".">>)
    \o << <<"R","e","t","r","i","e","v","e","d"," ">> \o Str(da) >>
    \o Clause(~nourl, <<"f","r","o","m"," ">> \o Str(m.url))

ApaParts(m, da, today, nourl) ==
  Clause(Truthy(m.author), Str(m.author))
    \o << <<"(","n",".","d",".",")",".">> >>
    \o Clause(Truthy(m.title), Str(m.title) \o <<".">>)
    \o Clause(Truthy(m.publisher), Str(m.publisher) \o <<".">>)
    \o Clause(Truthy(da), <<"R","e","t","r","i","e","v","e","d"," ">> \o Str(da))
    \o Clause(~nourl, <<"f","r","o","m"," ">> \o Str(m.url))

\* Faulty variant of MlaParts: the publisher clause of Chicago (line 385).
MlaPartsPublisherDot(m, da, today, nourl) ==
  Clause(Truthy(m.author), Str(m.author) \o <<".">>)
    \o Clause(Truthy(m.title), <<"\"">> \o Str(m.title) \o <<".","\"">>)
    \o Clause(Truthy(m.publisher), Str(m.publisher) \o <<".">>)
    \o Clause(~nourl, Str(m.url))
    \o Clause(Truthy(da), <<"A","c","c","e","s","s","e","d"," ">> \o Str(da) \o <<".">>)

MlaParts(m, da, today, nourl) ==
  Clause(Truthy(m.author), Str(m.author) \o <<".">>)
    \o Clause(Truthy(m.title), <<"\"">> \o Str(m.title) \o <<".","\"">>)
    \o Clause(Truthy(m.publisher), Str(m.publisher))
    \o Clause(~nourl, Str(m.url))
    \o Clause(Truthy(da), <<"A","c","c","e","s","s","e","d"," ">> \o Str(da) \o <<".">>)

ChicagoParts(m, da, today, nourl) ==
  Clause(Truthy(m.author), Str(m.author) \o <<".">>)
    \o Clause(Truthy(m.title), <<"\"">> \o Str(m.title) \o <<".","\"">>)
    \o Clause(Truthy(m.publisher), Str(m.publisher) \o <<".">>)
    \o Clause(Truthy(da), <<"A","c","c","e","s","s","e","d"," ">> \o Str(da) \o <<".">>)
    \o Clause(~nourl, Str(m.url) \o <<".">>)

\* Faulty variant of IeeeParts: "[Online]." only for a page that has a title.
IeeePartsOnlineGated(m, da, today, nourl) ==
  Clause(Truthy(m.author), Str(m.author) \o <<",">>)
    \o Clause(Truthy(m.title), <<"\"">> \o Str(m.title) \o <<",","\"">>)
    \o Clause(Truthy(m.publisher), Str(m.publisher) \o <<".">>)
    \o Clause(Truthy(m.title), <<"[","O","n","l","i","n","e","]",".">>)
    \o Clause(~nourl, <<"A","v","a","i","l","a","b","l","e",":"," ">> \o Str(m.url))
    \o Clause(Truthy(da), <<"[","A","c","c","e","s","s","e","d",":"," ">> \o StrftimeDash(today) \o <<"]">>)

\* today is the day datetime.today() returns at line 402.
IeeeParts(m, da, today, nourl) ==
  Clause(Truthy(m.author), Str(m.author) \o <<",">>)
    \o Clause(Truthy(m.title), <<"\"">> \o Str(m.title) \o <<",","\"">>)
    \o Clause(Truthy(m.publisher), Str(m.publisher) \o <<".">>)
    \o << <<"[","O","n","l","i","n","e","]",".">> >>
    \o Clause(~nourl, <<"A","v","a","i","l","a","b","l","e",":"," ">> \o Str(m.url))
    \o Clause(Truthy(da), <<"[","A","c","c","e","s","s","e","d",":"," ">> \o StrftimeDash(today) \o <<"]">>)

\* Faulty variant of HarvardParts: the test of line 409 left out.
HarvardPartsUrlAlways(m, da, today, nourl) ==
  Clause(Truthy(m.author), Str(m.author) \o <<",">>)
    \o Clause(Truthy(m.title), Str(m.title) \o <<".">>)
    \o << <<"A","v","a","i","l","a","b","l","e"," ","a","t",":"," ">> \o Str(m.url) >>
    \o Clause(Truthy(da), <<"(","A","c","c","e","s","s","e","d",":"," ">> \o Str(da) \o <<")">>)

HarvardParts(m, da, today, nourl) ==
  Clause(Truthy(m.author), Str(m.author) \o <<",">>)
    \o Clause(Truthy(m.title), Str(m.title) \o <<".">>)
    \o Clause(~nourl, <<"A","v","a","i","l","a","b","l","e"," ","a","t",":"," ">> \o Str(m.url))
    \o Clause(Truthy(da), <<"(","A","c","c","e","s","s","e","d",":"," ">> \o Str(da) \o <<")">>)

Supported == { <<"a","p","a">>, <<"m","l","a">>, <<"c","h","i","c","a","g","o">>, <<"i","e","e","e">>, <<"h","a","r","v","a","r","d">> }

\* The if/elif chain of lines 356-412 on fmt.lower().
citation_parts(style, m, da, today, nourl) ==
  CASE style = <<"a","p","a">> -> ApaParts(m, da, today, nourl)
    [] style = <<"m","l","a">> -> MlaParts(m, da, today, nourl)
    [] style = <<"c","h","i","c","a","g","o">> -> ChicagoParts(m, da, today, nourl)
    [] style = <<"i","e","e","e">> -> IeeeParts(m, da, today, nourl)
    [] style = <<"h","a","r","v","a","r","d">> -> HarvardParts(m, da, today, nourl)

\* Lines 354-430: the value generate_citation returns once date_accessed is set.
generate_citation(m, f, da, today, nourl) ==
  IF Lower(f) \in Supported
  THEN [kind |-> "CitationMetaData",
        citation |-> Normalize(citation_parts(Lower(f), m, da, today, nourl)),
        format_type |-> f, date_accessed |-> da,
        url |-> m.url, title |-> m.title, author |-> m.author,
        publisher |-> m.publisher, date_published |-> m.date_published]
  ELSE [NoResult EXCEPT !.kind = "str", !.text = Sentinel]

(* ------------------------------- inputs ------------------------------- *)
Alphabet == {"a", " ", "."}

\* Every non-empty text over Alphabet of at most MaxLen characters.
Strs == UNION {[1..k -> Alphabet] : k \in 1..MaxLen}

Url1 == <<"h","t","t","p",":","/","/","e","x","a","m","p","l","e",".","c","o","m">>

Url2 == <<"h","t","t","p",":","/","/","e","x","a","m","p","l","e",".","o","r","g">>

\* Field values of a record passed to generate_citation directly.
CallAuthors == {None, <<"J","o","h","n"," ","D","o","e">>}

CallTitles == {None, <<"E","x","a","m","p","l","e"," ","D","o","m","a","i","n">>, <<"A","c","c","e","s","s","e","d">>, Url1}

CallPublishers == {None, <<"E","x","a","m","p","l","e"," ","P","u","b","l","i","s","h","e","r">>}

CallUrls == {None, Url1, <<".","b">>}

\* The same, with every short text over Alphabet.
TextAuthors == {None, <<"J","o","h","n"," ","D","o","e">>, <<"a"," ",".","b">>, <<"D","o","e",",">>} \cup Strs

TextTitles == {None, <<"E","x","a","m","p","l","e"," ","D","o","m","a","i","n">>} \cup Strs

TextPublishers == {None, <<"E","x","a","m","p","l","e"," ","P","u","b","l","i","s","h","e","r">>, <<"A","c","m","e",","," ","I","n","c",".">>} \cup Strs

TextUrls == {Url1}

\* fmt arguments of a direct call that name no supported style.
OtherStyles == { <<"k","l","i","n","g","o","n">>, <<"m","l">>, <<"m","l","a","a">>, <<>> }

\* fmt arguments of a direct call that name a supported style in other case.
VariantStyles == { <<"I","E","E","E">>, <<"H","a","r","v","a","r","d">>, <<"M","l","a">> }

\* The choices of click.Choice(["mla", "apa", "chicago", "IEEE", "Harvard"]).
CliStyles == { <<"m","l","a">>, <<"a","p","a">>, <<"c","h","i","c","a","g","o">>, <<"I","E","E","E">>, <<"H","a","r","v","a","r","d">> }

CliUrls == {Url1, Url2}

\* What the fetched page holds (None: the element is missing).
PageAuthors == {None, <<"J","a","n","e"," ","R","o","e">>, <<"J","o","h","n">>}

PageTitles == {None, <<" ","E","x","a","m","p","l","e"," ","D","o","m","a","i","n"," ">>}

PagePublishers == {None, <<"E","x","a","m","p","l","e"," ","P","u","b","l","i","s","h","e","r">>}

PageDates == {None, <<"2","0","2","0","-","0","1","-","0","1">>, <<"J","a","n"," ","2","0","2","0">>}

OverrideKeys == {"author", "title", "publisher", "pub_date", "editor"}

OverrideValues == { <<"J","o","h","n"," ","D","o","e">>, <<"a"," ",".">> }

\* dict(override): at most MaxOverrides distinct keys.
OverrideDicts ==
  UNION {[K -> OverrideValues] :
           K \in {S \in SUBSET OverrideKeys : Cardinality(S) <= MaxOverrides}}

(* ------------------------------- state -------------------------------- *)
VARIABLES
  pc,               \* where the run is: start, fetched, ready, sampled, returned, exit
  url,              \* the URL argument
  fmt,              \* the style argument
  no_date,          \* --no-date
  no_url,           \* --no-url
  overrides,        \* dict(override)
  resolved,         \* what get_webpage_details returned
  webpage_metadata, \* the record handed to generate_citation
  clock,            \* the day datetime.today() returns now
  date_accessed,    \* generate_citation's local of line 352
  result,           \* what generate_citation returned
  stdout            \* what click.echo printed

vars ==
  <<pc, url, fmt, no_date, no_url, overrides, resolved, webpage_metadata,
    clock, date_accessed, result, stdout>>

inputs == <<url, fmt, no_date, no_url, overrides>>

(* ------------------------------ actions ------------------------------- *)
\* Lines 294-335: the page is fetched and parsed, or anything raises.
get_webpage_details(u, ok, t, a, p, d) ==
  IF ok /\ (d = None \/ IsIsoDate(Strip(d)))
  THEN WebPageDetails(u,
         IF t = None THEN None ELSE Strip(t),
         IF a = None THEN None ELSE Strip(a),
         IF p = None THEN None ELSE Strip(p),
         IF d = None THEN None ELSE ConvertPubDate(Strip(d)))
  ELSE EmptyDetails

\* Line 271.
Fetch ==
  /\ pc = "start"
  /\ \E ok \in BOOLEAN, t \in PageTitles, a \in PageAuthors,
        p \in PagePublishers, d \in PageDates :
       resolved' = get_webpage_details(url, ok, t, a, p, d)
  /\ pc' = "fetched"
  /\ UNCHANGED <<inputs, webpage_metadata, clock, date_accessed, result, stdout>>

\* Faulty variant of ApplyOverridesTo: an override only fills a field the page left empty.
ApplyOverridesIfMissing(m, o) ==
  [m EXCEPT
     !.author = IF "author" \in DOMAIN o /\ ~Truthy(@) THEN o["author"] ELSE @,
     !.title = IF "title" \in DOMAIN o /\ ~Truthy(@) THEN o["title"] ELSE @,
     !.publisher = IF "publisher" \in DOMAIN o /\ ~Truthy(@) THEN o["publisher"] ELSE @,
     !.date_published = IF "pub_date" \in DOMAIN o /\ ~Truthy(@) THEN o["pub_date"] ELSE @]

\* Lines 273-280.
ApplyOverridesTo(m, o) ==
  [m EXCEPT
     !.author = IF "author" \in DOMAIN o THEN o["author"] ELSE @,
     !.title = IF "title" \in DOMAIN o THEN o["title"] ELSE @,
     !.publisher = IF "publisher" \in DOMAIN o THEN o["publisher"] ELSE @,
     !.date_published = IF "pub_date" \in DOMAIN o THEN o["pub_date"] ELSE @]

ApplyOverrides ==
  /\ pc = "fetched"
  /\ webpage_metadata' = ApplyOverridesTo(resolved, overrides)
  /\ pc' = "ready"
  /\ UNCHANGED <<inputs, resolved, clock, date_accessed, result, stdout>>

\* Line 352.
SampleDate ==
  /\ pc = "ready"
  /\ date_accessed' = IF ~no_date THEN StrftimeLong(clock) ELSE None
  /\ pc' = "sampled"
  /\ UNCHANGED <<inputs, resolved, webpage_metadata, clock, result, stdout>>

\* Midnight passes between line 352 and line 402, the only later read of the clock.
Tick ==
  /\ pc = "sampled"
  /\ Truthy(date_accessed)
  /\ Lower(fmt) = <<"i","e","e","e">>
  /\ clock < MaxDay
  /\ clock' = clock + 1
  /\ UNCHANGED <<pc, inputs, resolved, webpage_metadata, date_accessed, result, stdout>>

\* Lines 354-430.
FormatCitation ==
  /\ pc = "sampled"
  /\ result' = generate_citation(webpage_metadata, fmt, date_accessed, clock, no_url)
  /\ pc' = "returned"
  /\ UNCHANGED <<inputs, resolved, webpage_metadata, clock, date_accessed, stdout>>

\* Lines 115-116: create_citation prints the citation (--dump defaults to true).
\* The log database and the clipboard (lines 117-124) are not part of the state.
Echo ==
  /\ pc = "returned"
  /\ stdout' = result.citation
  /\ pc' = "exit"
  /\ UNCHANGED <<inputs, resolved, webpage_metadata, clock, date_accessed, result>>

(* --------------------------- specifications --------------------------- *)
\* easycit create URL [--fmt F] [--no-date] [--no-url] [--override K V]
Init ==
  /\ pc = "start"
  /\ url \in CliUrls
  /\ fmt \in CliStyles
  /\ no_date \in BOOLEAN
  /\ no_url \in BOOLEAN
  /\ overrides \in OverrideDicts
  /\ resolved = EmptyDetails
  /\ webpage_metadata = EmptyDetails
  /\ clock = 0
  /\ date_accessed = None
  /\ result = NoResult
  /\ stdout = None

Next == Fetch \/ ApplyOverrides \/ SampleDate \/ Tick \/ FormatCitation \/ Echo

Spec == Init /\ [][Next]_vars

\* generate_citation(website_metadata, fmt, no_date, no_url) called directly,
\* as tests/test_easycit.py does: no command line, no fetch, no overrides.
DirectCall ==
  /\ pc = "ready"
  /\ url = None
  /\ resolved = EmptyDetails
  /\ overrides = <<>>
  /\ no_date \in BOOLEAN
  /\ no_url \in BOOLEAN
  /\ clock = 0
  /\ date_accessed = None
  /\ result = NoResult
  /\ stdout = None

\* Any style argument, on records of ordinary text.
InitCall ==
  /\ DirectCall
  /\ fmt \in Supported \cup VariantStyles \cup OtherStyles
  /\ \E u \in CallUrls, t \in CallTitles, a \in CallAuthors, p \in CallPublishers :
       webpage_metadata = WebPageDetails(u, t, a, p, None)

NextCall == SampleDate \/ Tick \/ FormatCitation

SpecCall == InitCall /\ [][NextCall]_vars

\* The five styles, on records of every short text.
InitText ==
  /\ DirectCall
  /\ fmt \in Supported
  /\ \E u \in TextUrls, t \in TextTitles, a \in TextAuthors, p \in TextPublishers :
       webpage_metadata = WebPageDetails(u, t, a, p, None)

SpecText == InitText /\ [][NextCall]_vars

(* ------------------------- properties: helpers ------------------------ *)
\* generate_citation has returned a CitationMetaData.
Cited == pc \in {"returned", "exit"} /\ result.kind = "CitationMetaData"

\* The texts the citation renders: the present fields, and the url unless suppressed.
Rendered ==
  {webpage_metadata[f] : f \in {g \in {"author", "title", "publisher"} :
                                   Truthy(webpage_metadata[g])}}
    \cup (IF no_url THEN {} ELSE {Str(webpage_metadata.url)})

Doubled(s) == Contains(s, <<".",".">>) \/ Contains(s, <<",",",">>)

SpaceBeforePunctIn(t) == \E i \in 1..Len(t) : SpaceBeforePunct(t, i)

\* Non-empty text that neither begins with ',' or '.', nor ends in whitespace,
\* nor has whitespace immediately before a ',' or '.'.
Clean(t) ==
  /\ t # <<>>
  /\ ~IsPunct(t[1])
  /\ ~IsSpace(t[Len(t)])
  /\ ~SpaceBeforePunctIn(t)

\* The joined clauses of line 416, before strip and the substitutions.
Joined ==
  Join(citation_parts(Lower(fmt), webpage_metadata, date_accessed, clock, no_url))

\* A ',' or '.' followed, after whitespace, by the same character.
SpacedRepeat(s) ==
  LET t == CollapseSpaces(s)
  IN  \E i \in 1..(Len(t) - 2) : IsPunct(t[i]) /\ IsSpace(t[i + 1]) /\ t[i + 2] = t[i]

(* --------------------------------- C1 --------------------------------- *)
\* C1 as claimed: for every supported style, flags and subset of present fields
\* (url present), generate_citation returns a citation that contains neither
\* "None" nor "null" nor a doubled ".." or ",,", whatever the fields hold.
C1_AnyText ==
  (pc = "returned" /\ webpage_metadata.url # None) =>
    /\ result.kind = "CitationMetaData"
    /\ ~Contains(result.citation, <<"N","o","n","e">>)
    /\ ~Contains(result.citation, <<"n","u","l","l">>)
    /\ ~Doubled(result.citation)

\* C1 amended: generate_citation returns a citation that renders no absent
\* field as "None" or "null", and that has no doubled ".." or ",," when every
\* rendered text is clean.
C1_CleanText ==
  (pc = "returned" /\ webpage_metadata.url # None) =>
    /\ result.kind = "CitationMetaData"
    /\ ~Contains(result.citation, <<"N","o","n","e">>)
    /\ ~Contains(result.citation, <<"n","u","l","l">>)
    /\ (\A t \in Rendered : Clean(t)) => ~Doubled(result.citation)

C1_Witness ==
  /\ Cited
  /\ fmt = <<"a","p","a">>
  /\ webpage_metadata.title = None
  /\ webpage_metadata.author = <<"J","o","h","n"," ","D","o","e">>
  /\ webpage_metadata.publisher = <<"A","c","m","e",","," ","I","n","c",".">>
  /\ ~no_url /\ ~no_date
  /\ \A t \in Rendered : Clean(t)
  /\ Contains(result.citation, <<"J","o","h","n"," ","D","o","e"," ","(","n",".","d",".",")","."," ","A","c","m","e",","," ","I","n","c","."," ","R","e","t","r","i","e","v","e","d">>)

(* --------------------------------- C2 --------------------------------- *)
\* C2: whatever the outcome of resolution, the record keeps url equal to the
\* input URL, and create without --no-url prints a citation containing it.
C2_UrlKept ==
  /\ pc # "start" => resolved.url = url
  /\ (pc = "exit" /\ ~no_url) => Contains(stdout, url)

(* --------------------------------- C3 --------------------------------- *)
\* C3 as claimed: with suppress_url the citation never contains the input URL.
C3_NoUrlText ==
  (Cited /\ no_url) => ~Contains(result.citation, webpage_metadata.url)

HasSlash(t) == t # None /\ \E i \in 1..Len(t) : t[i] = "/"

\* C3 amended: with suppress_url the url field is not read: the citation is the
\* one of the same record without a url, and a URL with a '/' does not occur in
\* it when no other field has a '/'.
C3_UrlNotRead ==
  (Cited /\ no_url) =>
    /\ result.citation =
         generate_citation([webpage_metadata EXCEPT !.url = None], fmt,
                           date_accessed, clock, no_url).citation
    /\ (HasSlash(webpage_metadata.url) /\ \A t \in Rendered : ~HasSlash(t)) =>
         ~Contains(result.citation, webpage_metadata.url)

C3_Witness ==
  /\ Cited /\ no_url /\ ~no_date
  /\ fmt = <<"h","a","r","v","a","r","d">>
  /\ webpage_metadata.url = Url1
  /\ webpage_metadata.author = <<"J","o","h","n"," ","D","o","e">>
  /\ webpage_metadata.title = <<"E","x","a","m","p","l","e"," ","D","o","m","a","i","n">>
  /\ ~Contains(result.citation, Url1)
  /\ Contains(result.citation, <<"J","o","h","n"," ","D","o","e",","," ","E","x","a","m","p","l","e"," ","D","o","m","a","i","n","."," ","(","A","c","c","e","s","s","e","d",":"," ">>)

(* --------------------------------- C4 --------------------------------- *)
AccessWords == { <<"A","c","c","e","s","s","e","d">>, <<"R","e","t","r","i","e","v","e","d">> }

\* C4 as claimed: with suppress_date the citation contains neither "Accessed"
\* nor "Retrieved", and date_accessed is absent.
C4_NoDateText ==
  (Cited /\ no_date) =>
    /\ result.date_accessed = None
    /\ \A w \in AccessWords : ~Contains(result.citation, w)

\* C4 amended: with suppress_date, date_accessed is absent and the citation
\* contains "Accessed" or "Retrieved" only if a rendered field's text does.
C4_NoDateClause ==
  (Cited /\ no_date) =>
    /\ result.date_accessed = None
    /\ \A w \in AccessWords :
         (\A t \in Rendered : ~Contains(t, w)) => ~Contains(result.citation, w)

C4_Witness ==
  /\ Cited /\ no_date /\ ~no_url
  /\ fmt = <<"a","p","a">>
  /\ webpage_metadata.author = <<"J","o","h","n"," ","D","o","e">>
  /\ webpage_metadata.title = <<"E","x","a","m","p","l","e"," ","D","o","m","a","i","n">>
  /\ webpage_metadata.publisher = None
  /\ result.citation = <<"J","o","h","n"," ","D","o","e"," ","(","n",".","d",".",")","."," ","E","x","a","m","p","l","e"," ","D","o","m","a","i","n","."," ","f","r","o","m"," ","h","t","t","p",":","/","/","e","x","a","m","p","l","e",".","c","o","m">>

(* --------------------------------- C5 --------------------------------- *)
\* C5: a style that is none of the five, compared without case, makes
\* generate_citation return exactly the sentinel; one of the five never does.
C5_Sentinel ==
  pc = "returned" =>
    IF fmt \in Supported \cup VariantStyles \cup CliStyles
    THEN result.kind = "CitationMetaData"
    ELSE result.kind = "str" /\ result.text = Sentinel

C5_Witness ==
  /\ pc = "returned"
  /\ fmt = <<"k","l","i","n","g","o","n">>
  /\ webpage_metadata.author = <<"J","o","h","n"," ","D","o","e">>
  /\ result.kind = "str"
  /\ result.text = Sentinel

(* --------------------------------- C6 --------------------------------- *)
\* The field each recognized override key is stored in.
OverrideField ==
  [author |-> "author", title |-> "title", publisher |-> "publisher",
   pub_date |-> "date_published"]

\* C6 as claimed: with an override of author by a non-empty X the citation
\* contains X and not the resolved author; only the four recognized keys
\* change the record.
C6_ContainsOverride ==
  /\ (Cited /\ "author" \in DOMAIN overrides) =>
       /\ Contains(result.citation, overrides["author"])
       /\ (Truthy(resolved.author) /\ resolved.author # overrides["author"]) =>
            ~Contains(result.citation, resolved.author)
  /\ (pc \notin {"start", "fetched"} /\ DOMAIN overrides \subseteq {"editor"}) =>
       webpage_metadata = resolved

Normalized(t) == Substitute(Strip(t)) = t

\* C6 amended: an override replaces its field in full and any other key
\* changes nothing; with an override of author by a non-empty X the citation
\* does not depend on the resolved author, and contains X when X is
\* already normalized.
C6_ReplacesField ==
  /\ pc \notin {"start", "fetched"} =>
       /\ \A k \in DOMAIN OverrideField :
            webpage_metadata[OverrideField[k]] =
              IF k \in DOMAIN overrides THEN overrides[k]
              ELSE resolved[OverrideField[k]]
       /\ webpage_metadata.url = resolved.url
  /\ (Cited /\ "author" \in DOMAIN overrides) =>
       /\ result.author = overrides["author"]
       /\ result.citation =
            generate_citation(
              ApplyOverridesTo([resolved EXCEPT !.author = None], overrides),
              fmt, date_accessed, clock, no_url).citation
       /\ Normalized(overrides["author"]) =>
            Contains(result.citation, overrides["author"])

C6_Witness ==
  /\ pc = "exit"
  /\ resolved.author = <<"J","a","n","e"," ","R","o","e">>
  /\ DOMAIN overrides = {"author"}
  /\ overrides["author"] = <<"J","o","h","n"," ","D","o","e">>
  /\ Contains(stdout, <<"J","o","h","n"," ","D","o","e">>)
  /\ ~Contains(stdout, <<"J","a","n","e"," ","R","o","e">>)

(* --------------------------------- C7 --------------------------------- *)
\* Present text with whitespace only as single interior spaces, no repeated
\* ',' or '.', and no ',' or '.' at either end.
Plain(t) ==
  /\ Truthy(t)
  /\ ~IsSpace(t[1]) /\ ~IsSpace(t[Len(t)])
  /\ ~IsPunct(t[1]) /\ ~IsPunct(t[Len(t)])
  /\ \A i \in 1..(Len(t) - 1) :
       /\ ~(IsSpace(t[i]) /\ IsSpace(t[i + 1]))
       /\ ~(IsPunct(t[i]) /\ t[i + 1] = t[i])

C7_Fields ==
  {webpage_metadata.author, webpage_metadata.title,
   webpage_metadata.publisher, webpage_metadata.url}

C7_Expected ==
  webpage_metadata.author \o <<"."," ","\"">> \o webpage_metadata.title \o <<".","\""," ">>
    \o webpage_metadata.publisher \o <<" ">> \o webpage_metadata.url

C7_Case == Cited /\ fmt = <<"m","l","a">> /\ no_date /\ ~no_url

\* C7 as claimed: for plain author, title, publisher and url, MLA with the
\* date suppressed is author + '. "' + title + '." ' + publisher + ' ' + url.
C7_MlaExact ==
  (C7_Case /\ \A t \in C7_Fields : Plain(t)) => result.citation = C7_Expected

\* C7 amended: the same when, besides, no field has whitespace immediately
\* before a ',' or '.'.
C7_MlaExactNoSpacedPunct ==
  (C7_Case /\ \A t \in C7_Fields : Plain(t) /\ ~SpaceBeforePunctIn(t)) =>
    result.citation = C7_Expected

C7_Witness ==
  /\ C7_Case
  /\ webpage_metadata =
       WebPageDetails(Url1, <<"E","x","a","m","p","l","e"," ","D","o","m","a","i","n">>, <<"J","o","h","n"," ","D","o","e">>, <<"E","x","a","m","p","l","e"," ","P","u","b","l","i","s","h","e","r">>, None)
  /\ result.citation =
       <<"J","o","h","n"," ","D","o","e","."," ","\"","E","x","a","m","p","l","e"," ","D","o","m","a","i","n",".","\""," ","E","x","a","m","p","l","e"," ","P","u","b","l","i","s","h","e","r"," ","h","t","t","p",":","/","/","e","x","a","m","p","l","e",".","c","o","m">>

(* --------------------------------- C8 --------------------------------- *)
OnlyUrl ==
  /\ webpage_metadata.url # None
  /\ webpage_metadata.title = None
  /\ webpage_metadata.author = None
  /\ webpage_metadata.publisher = None
  /\ webpage_metadata.date_published = None

\* C8: with only url set and both flags set, the citation is empty for mla,
\* chicago and harvard, "(n.d.)." for apa and "[Online]." for ieee.
C8_FixedClauses ==
  (Cited /\ OnlyUrl /\ no_date /\ no_url) =>
    result.citation =
      CASE fmt \in { <<"a","p","a">> } -> <<"(","n",".","d",".",")",".">>
        [] fmt \in { <<"i","e","e","e">>, <<"I","E","E","E">> } -> <<"[","O","n","l","i","n","e","]",".">>
        [] OTHER -> <<>>

C8_Witness ==
  /\ Cited /\ OnlyUrl /\ no_date /\ no_url
  /\ fmt = <<"i","e","e","e">>
  /\ result.citation = <<"[","O","n","l","i","n","e","]",".">>

(* --------------------------------- C9 --------------------------------- *)
\* C9: for ieee with a date, the day of the "[Accessed: DD-Mon-YYYY]" clause
\* is the day of date_accessed.
C9_SameDay ==
  (Cited /\ Lower(fmt) = <<"i","e","e","e">> /\ ~no_date) =>
    \E d \in 0..MaxDay :
      /\ result.date_accessed = StrftimeLong(d)
      /\ Contains(result.citation, <<"[","A","c","c","e","s","s","e","d",":"," ">> \o StrftimeDash(d) \o <<"]">>)

(* --------------------------------- C10 -------------------------------- *)
\* C10 as claimed: strip and the substitutions leave every citation unchanged.
C10_Idempotent == Cited => Substitute(Strip(result.citation)) = result.citation

\* C10 amended: they leave the citation unchanged exactly when the joined
\* clauses hold no ',' or '.' followed, after whitespace, by the same character.
C10_IdempotentUnlessSpacedRepeat ==
  (pc = "returned" /\ result.kind = "CitationMetaData") =>
    ((Substitute(Strip(result.citation)) = result.citation) <=> ~SpacedRepeat(Joined))

C10_Witness ==
  /\ pc = "returned" /\ result.kind = "CitationMetaData"
  /\ fmt = <<"m","l","a">>
  /\ webpage_metadata.author = <<"a"," ",".","b">>
  /\ webpage_metadata.title = <<" ">>
  /\ ~SpacedRepeat(Joined)
  /\ Contains(result.citation, <<"a",".","b","."," ","\"",".","\"">>)
  /\ Substitute(Strip(result.citation)) = result.citation
====
